---------------------------- MODULE Spec2Model ----------------------------
(***************************************************************************)
(* A model of passline: pkg/crypt (key derivation, AES-GCM encryption of   *)
(* a string into a base64 blob, password generation) and pkg/core (the     *)
(* commands that check the global password and add, rename and delete     *)
(* credentials of the vault).                                              *)
(*                                                                         *)
(* Go strings and byte slices are sequences of bytes (0..255).  Site names *)
(* and usernames are only ever compared, so they are TLA+ strings.         *)
(***************************************************************************)
EXTENDS Integers, Sequences, FiniteSets, TLC

VARIABLES
    vault,   \* the stored items, in order: <<[Name, Credentials]>>
    origin,  \* ghost: stored blob -> the global password it was encrypted with
    last,    \* the last command run: its inputs and what it did
    cr,      \* harness around AesGcmEncrypt / AesGcmDecrypt
    gen      \* the running state of GeneratePassword

vars == <<vault, origin, last, cr, gen>>

---------------------------------------------------------------------------
(* Small helpers *)

RECURSIVE SumSeq(_)
SumSeq(s) == IF s = <<>> THEN 0 ELSE Head(s) + SumSeq(Tail(s))

Range(s) == {s[i] : i \in 1..Len(s)}

---------------------------------------------------------------------------
(* encoding/base64, URLEncoding (alphabet A-Z a-z 0-9 - _, padding '=') *)

PadChar == 61

\* the character of a 6-bit value
Enc6(v) ==
    IF v < 26 THEN 65 + v
    ELSE IF v < 52 THEN 97 + (v - 26)
    ELSE IF v < 62 THEN 48 + (v - 52)
    ELSE IF v = 62 THEN 45
    ELSE 95

\* the 6-bit value of a character, 255 for a character outside the alphabet
Dec6(c) ==
    IF c >= 65 /\ c <= 90 THEN c - 65
    ELSE IF c >= 97 /\ c <= 122 THEN c - 97 + 26
    ELSE IF c >= 48 /\ c <= 57 THEN c - 48 + 52
    ELSE IF c = 45 THEN 62
    ELSE IF c = 95 THEN 63
    ELSE 255

RECURSIVE EncodeToString(_)
EncodeToString(b) ==
    IF Len(b) = 0 THEN <<>>
    ELSE IF Len(b) = 1 THEN
        LET val == b[1] * 65536
        IN  <<Enc6(val \div 262144), Enc6((val \div 4096) % 64), PadChar, PadChar>>
    ELSE IF Len(b) = 2 THEN
        LET val == b[1] * 65536 + b[2] * 256
        IN  <<Enc6(val \div 262144), Enc6((val \div 4096) % 64),
              Enc6((val \div 64) % 64), PadChar>>
    ELSE
        LET val == b[1] * 65536 + b[2] * 256 + b[3]
        IN  <<Enc6(val \div 262144), Enc6((val \div 4096) % 64),
              Enc6((val \div 64) % 64), Enc6(val % 64)>>
            \o EncodeToString(SubSeq(b, 4, Len(b)))

\* the bytes of one quantum of dlen characters (dlen - 1 bytes)
QuantumBytes(d, dlen) ==
    LET val == d[1] * 262144 + d[2] * 4096 + d[3] * 64 + d[4]
        all == <<val \div 65536, (val \div 256) % 256, val % 256>>
    IN  SubSeq(all, 1, dlen - 1)

\* the characters '\r' and '\n' are skipped wherever they stand
StripNewlines(s) == SelectSeq(s, LAMBDA c : c # 10 /\ c # 13)

RECURSIVE DecodeQuanta(_, _)
\* Decode from the front of src; acc is what is decoded so far.  An error
\* inside a quantum drops that quantum and keeps the ones before it.
DecodeQuanta(src, acc) ==
    IF Len(src) = 0 THEN [bytes |-> acc, err |-> FALSE]
    ELSE
        LET ch(j) == IF j <= Len(src) THEN src[j] ELSE -1
            ok(j) == ch(j) >= 0 /\ Dec6(ch(j)) # 255
            v(j)  == IF ok(j) THEN Dec6(ch(j)) ELSE 0
            bad   == [bytes |-> acc, err |-> TRUE]
        IN  IF ~ok(1) \/ ~ok(2) THEN bad
            ELSE IF ok(3) /\ ok(4) THEN
                DecodeQuanta(SubSeq(src, 5, Len(src)),
                             acc \o QuantumBytes(<<v(1), v(2), v(3), v(4)>>, 4))
            ELSE IF ok(3) THEN
                \* three characters and one '='
                IF ch(4) # PadChar THEN bad
                ELSE [bytes |-> acc \o QuantumBytes(<<v(1), v(2), v(3), 0>>, 3),
                      err |-> Len(src) > 4]
            ELSE
                \* two characters and "=="
                IF ch(3) # PadChar \/ ch(4) # PadChar THEN bad
                ELSE [bytes |-> acc \o QuantumBytes(<<v(1), v(2), 0, 0>>, 2),
                      err |-> Len(src) > 4]

DecodeString(s) == DecodeQuanta(StripNewlines(s), <<>>)

---------------------------------------------------------------------------
(* GenerateKey: pbkdf2(password, salt, 4096, 32, sha1) *)

Salt == <<84, 104, 105, 115, 32, 105, 115, 32, 116, 104, 101, 32, 115, 97, 108, 116>>

KeyLen == 32

RECURSIVE Digest(_)
\* stands for the pseudorandom function of the derivation: deterministic,
\* and different for the different passwords the model draws
Digest(password) ==
    IF password = <<>> THEN 7
    ELSE (31 * Digest(SubSeq(password, 1, Len(password) - 1))
            + password[Len(password)] + 1) % 127

GenerateKey(password) ==
    [i \in 1..KeyLen |->
        (Salt[((i - 1) % Len(Salt)) + 1] + (2 * i + 1) * Digest(password)) % 256]

---------------------------------------------------------------------------
(* crypto/aes + crypto/cipher: AES-256 in GCM mode, idealised.  The        *)
(* keystream is added to the plaintext byte by byte; the tag is a function *)
(* of key, nonce and ciphertext that differs whenever the key differs.     *)

NonceSize == 12
TagSize == 16

\* aes.NewCipher accepts keys of 16, 24 or 32 bytes
NewCipherErr(key) == Len(key) \notin {16, 24, 32}

KeyStream(key, nonce, i) ==
    (key[((i - 1) % Len(key)) + 1] + nonce[((i - 1) % NonceSize) + 1] + i) % 256

\* tag byte j mixes two key bytes, a nonce byte, the length of the
\* ciphertext and the ciphertext bytes j places from its two ends
Tag(key, nonce, ct) ==
    [j \in 1..TagSize |->
        (key[j] + 3 * key[Len(key) - j + 1] + nonce[((j - 1) % NonceSize) + 1]
            + (IF Len(ct) = 0 THEN 0
               ELSE 5 * ct[((j - 1) % Len(ct)) + 1]
                    + 7 * ct[Len(ct) - ((j - 1) % Len(ct))])
            + 11 * Len(ct)) % 256]

\* aesgcm.Seal(nonce, nonce, plaintext, nil): nonce || ciphertext || tag
Seal(key, nonce, plaintext) ==
    LET ct == [i \in 1..Len(plaintext) |->
                  (plaintext[i] + KeyStream(key, nonce, i)) % 256]
    IN  nonce \o ct \o Tag(key, nonce, ct)

\* aesgcm.Open(nil, nonce, ciphertext, nil)
Open(key, nonce, ciphertext) ==
    IF Len(ciphertext) < TagSize THEN [err |-> TRUE, plaintext |-> <<>>]
    ELSE
        LET n  == Len(ciphertext) - TagSize
            ct == SubSeq(ciphertext, 1, n)
        IN  IF SubSeq(ciphertext, n + 1, Len(ciphertext)) # Tag(key, nonce, ct)
            THEN [err |-> TRUE, plaintext |-> <<>>]
            ELSE [err |-> FALSE,
                  plaintext |-> [i \in 1..n |->
                      (ct[i] - KeyStream(key, nonce, i)) % 256]]

---------------------------------------------------------------------------
(* pkg/crypt *)

\* AesGcmEncrypt with aesgcm.Seal(nil, nonce, ...): the nonce is not put in
\* front of the ciphertext
AesGcmEncryptNoNoncePrefix(password, text, nonce) ==
    [err |-> NewCipherErr(GenerateKey(password)),
     blob |-> EncodeToString(SubSeq(Seal(GenerateKey(password), nonce, text),
                                    NonceSize + 1, NonceSize + Len(text) + TagSize))]

\* AesGcmEncrypt(password, text); nonce is what rand.Reader delivered
AesGcmEncrypt(password, text, nonce) ==
    LET key == GenerateKey(password)
    IN  IF NewCipherErr(key) THEN [err |-> TRUE, blob |-> <<>>]
        ELSE [err |-> FALSE, blob |-> EncodeToString(Seal(key, nonce, text))]

\* what AesGcmDecrypt returns for the outcome of aesgcm.Open
OpenResult(opened) ==
    IF opened.err THEN [status |-> "error", text |-> <<>>]
    ELSE [status |-> "ok", text |-> opened.plaintext]

\* AesGcmDecrypt from the key and the decoded bytes on: the slice expressions
\* ciphertext[:nonceSize], ciphertext[nonceSize:] panic when fewer than
\* nonceSize bytes were decoded
DecryptDecoded(key, ciphertext) ==
    IF NewCipherErr(key) THEN [status |-> "error", text |-> <<>>]
    ELSE IF Len(ciphertext) < NonceSize THEN [status |-> "panic", text |-> <<>>]
    ELSE OpenResult(Open(key, SubSeq(ciphertext, 1, NonceSize),
                         SubSeq(ciphertext, NonceSize + 1, Len(ciphertext))))

\* AesGcmDecrypt(password, cryptoText).  The error of DecodeString is dropped:
\* what was decoded before it is used.
AesGcmDecrypt(password, cryptoText) ==
    DecryptDecoded(GenerateKey(password), DecodeString(cryptoText).bytes)

---------------------------------------------------------------------------
(* What the model draws for the inputs *)

\* global passwords: "", "a", "pw"
Passwords == {<<>>, <<97>>, <<112, 119>>}

\* plaintexts of every length modulo 3, with low, high and printable bytes
Texts == {<<>>, <<0>>, <<255>>, <<97, 98>>, <<0, 255>>, <<97, 98, 99>>,
          <<49, 50, 51, 52>>, <<255, 255, 255, 255, 255>>}

\* what rand.Reader may deliver for the nonce
Nonces == {[i \in 1..NonceSize |-> 0], [i \in 1..NonceSize |-> 255],
           [i \in 1..NonceSize |-> (17 * i) % 256]}

\* characters written over or after a blob: '!' and '+' are outside the
\* URL alphabet, 'A' and '_' inside, '=' is the padding, 10 is '\n'
DamageChars == {33, 43, 65, 95, 61, 10}

---------------------------------------------------------------------------
(* The encrypt / decrypt harness *)

CrIdle == [pc |-> "idle"]

\* text is encrypted under password with the nonce drawn
EncryptStep(nonce) ==
    /\ cr.pc = "input"
    /\ LET r == AesGcmEncrypt(cr.password, cr.text, nonce)
       IN  cr' = [cr EXCEPT !.pc = "encrypted", !.blob = r.blob, !.encErr = r.err]
    /\ UNCHANGED <<vault, origin, last, gen>>

\* the stored blob is cut to its first k characters
TruncateStep(k) ==
    /\ cr.pc = "encrypted"
    /\ k < Len(cr.blob)
    /\ cr' = [cr EXCEPT !.pc = "damaged", !.blob = SubSeq(cr.blob, 1, k)]
    /\ UNCHANGED <<vault, origin, last, gen>>

\* one character of the stored blob is overwritten
OverwriteStep(pos, c) ==
    /\ cr.pc = "encrypted"
    /\ pos \in 1..Len(cr.blob)
    /\ cr.blob[pos] # c
    /\ cr' = [cr EXCEPT !.pc = "damaged", !.blob = [cr.blob EXCEPT ![pos] = c]]
    /\ UNCHANGED <<vault, origin, last, gen>>

\* one character is written after the stored blob
AppendStep(c) ==
    /\ cr.pc = "encrypted"
    /\ cr' = [cr EXCEPT !.pc = "damaged", !.blob = Append(cr.blob, c)]
    /\ UNCHANGED <<vault, origin, last, gen>>

\* the blob at hand is decrypted under password q
DecryptStep(q) ==
    /\ cr.pc \in {"encrypted", "damaged"}
    /\ ~cr.encErr
    /\ LET r == AesGcmDecrypt(q, cr.blob)
       IN  cr' = [cr EXCEPT !.pc = "decrypted", !.intact = (cr.pc = "encrypted"),
                            !.dpassword = q, !.status = r.status, !.out = r.text]
    /\ UNCHANGED <<vault, origin, last, gen>>

GenIdle == [pc |-> "idle"]
LastNone == [op |-> "none"]

InitCrypt ==
    /\ vault = <<>>
    /\ origin = {}
    /\ last = LastNone
    /\ gen = GenIdle
    /\ cr \in {[pc |-> "input", password |-> p, text |-> t, blob |-> <<>>,
                encErr |-> FALSE, intact |-> TRUE, dpassword |-> <<>>,
                status |-> "", out |-> <<>>] : p \in Passwords, t \in Texts}

TruncateLens == {0, 4, 15, 16, 17, 20, 36, 37, 38, 39}
OverwritePositions == {1, 16, 17, 38, 39, 40}

NextCrypt ==
    \/ \E nonce \in Nonces : EncryptStep(nonce)
    \/ \E k \in TruncateLens : TruncateStep(k)
    \/ \E pos \in OverwritePositions, c \in DamageChars : OverwriteStep(pos, c)
    \/ \E c \in DamageChars : AppendStep(c)
    \/ \E q \in Passwords : DecryptStep(q)

SpecCrypt == InitCrypt /\ [][NextCrypt]_vars

---------------------------------------------------------------------------
(* Claims about AesGcmEncrypt / AesGcmDecrypt, checked under SpecCrypt *)

\* C3: whatever the password, the text and the nonce drawn, encryption
\* succeeds, and decrypting the untouched blob under the same password
\* returns exactly the text that was encrypted, with no error.
C3_RoundTrip ==
    /\ cr.pc = "encrypted" => ~cr.encErr /\ Len(cr.blob) > 0
    /\ cr.pc = "decrypted" /\ cr.intact /\ cr.dpassword = cr.password
         => cr.status = "ok" /\ cr.out = cr.text

C3_Witness ==
    /\ cr.pc = "decrypted" /\ cr.intact /\ cr.dpassword = cr.password
    /\ Len(cr.text) = 5 /\ cr.out = cr.text /\ cr.blob[1] # 65

\* a blob that is no valid encoding, or that decodes to fewer bytes than a nonce
Malformed(blob) ==
    \/ DecodeString(blob).err
    \/ Len(DecodeString(blob).bytes) < NonceSize

\* C4: decrypting a malformed blob returns an error: it neither crashes nor
\* returns a plaintext.
C4_MalformedBlobIsAnError ==
    cr.pc = "decrypted" /\ Malformed(cr.blob) => cr.status = "error"

---------------------------------------------------------------------------
(* GeneratePassword *)

lowercase == [i \in 1..26 |-> 96 + i]
uppercase == [i \in 1..26 |-> 64 + i]
numbers   == [i \in 1..10 |-> 47 + i]
symbols   == <<33, 36, 37, 38, 40, 41, 47, 63>>
all       == lowercase \o uppercase \o numbers \o symbols

\* the outcomes of random.Intn(n) the model draws when a character is picked
CharDraws(n) == {0, n - 1}

\* a = append(a, lowercase[..], uppercase[..], numbers[..], symbols[..])
RequirementsStep(r1, r2, r3, r4) ==
    /\ gen.pc = "requirements"
    /\ gen' = [gen EXCEPT !.pc = "populate", !.i = 0,
                          !.a = <<lowercase[r1 + 1], uppercase[r2 + 1],
                                  numbers[r3 + 1], symbols[r4 + 1]>>]
    /\ UNCHANGED <<vault, origin, last, cr>>

\* for i := 0; i < length-4; i++ { a = append(a, all[random.Intn(len(all))]) }
PopulateStep(r) ==
    /\ gen.pc = "populate"
    /\ IF gen.i < gen.length - 4
       THEN gen' = [gen EXCEPT !.a = Append(gen.a, all[r + 1]), !.i = gen.i + 1]
       ELSE gen' = [gen EXCEPT !.pc = "shuffle", !.i = 0]
    /\ UNCHANGED <<vault, origin, last, cr>>

\* the shuffle loop without the temporary: a[i] is overwritten and lost
ShuffleOverwrite(a, i, randomPosition) ==
    [a EXCEPT ![i + 1] = a[randomPosition + 1]]

\* the body of the shuffle loop: a[i] and a[randomPosition] change places
ShuffleSwap(a, i, randomPosition) ==
    [a EXCEPT ![i + 1] = a[randomPosition + 1], ![randomPosition + 1] = a[i + 1]]

\* for i := 0; i < length; i++ { randomPosition := random.Intn(length); swap }
\* (a holds at least `length` characters here, so no index is out of range)
ShuffleStep(randomPosition) ==
    /\ gen.pc = "shuffle"
    /\ gen.i < gen.length
    /\ randomPosition < gen.length
    /\ gen' = [gen EXCEPT !.a = ShuffleSwap(gen.a, gen.i, randomPosition),
                          !.i = gen.i + 1]
    /\ UNCHANGED <<vault, origin, last, cr>>

\* password := string(a); return password, nil
ReturnStep ==
    /\ gen.pc = "shuffle"
    /\ gen.i >= gen.length
    /\ gen' = [gen EXCEPT !.pc = "done", !.password = gen.a]
    /\ UNCHANGED <<vault, origin, last, cr>>

MaxLength == 5

InitGen ==
    /\ vault = <<>>
    /\ origin = {}
    /\ last = LastNone
    /\ cr = CrIdle
    /\ gen \in {[pc |-> "requirements", length |-> n, a |-> <<>>, i |-> 0,
                 password |-> <<>>] : n \in 0..MaxLength}

NextGen ==
    \/ \E r1 \in CharDraws(26), r2 \in CharDraws(26), r3 \in CharDraws(10),
          r4 \in CharDraws(8) : RequirementsStep(r1, r2, r3, r4)
    \/ \E r \in CharDraws(Len(all)) : PopulateStep(r)
    \/ \E randomPosition \in 0..MaxLength : ShuffleStep(randomPosition)
    \/ ReturnStep

SpecGen == InitGen /\ [][NextGen]_vars

HasOneOf(password, class) == \E k \in 1..Len(password) : password[k] \in Range(class)

\* C9: for a length of at least 4, whatever the random draws (those of the
\* shuffle included), the password returned has exactly `length` characters
\* and holds a lowercase letter, an uppercase letter, a digit and a symbol.
C9_GeneratedPassword ==
    gen.length >= 4 /\ gen.pc = "done" =>
            /\ Len(gen.password) = gen.length
            /\ HasOneOf(gen.password, lowercase)
            /\ HasOneOf(gen.password, uppercase)
            /\ HasOneOf(gen.password, numbers)
            /\ HasOneOf(gen.password, symbols)
            /\ \A k \in 1..Len(gen.password) : gen.password[k] \in Range(all)

\* a password of 5 characters came back whose forced characters all moved
C9_Witness ==
    /\ gen.pc = "done" /\ gen.length = 5
    /\ gen.password[1] \notin Range(lowercase)
    /\ gen.password[2] \notin Range(uppercase)
    /\ gen.password[3] \notin Range(numbers)
    /\ gen.password[4] \notin Range(symbols)

---------------------------------------------------------------------------
(* pkg/storage: the ordered collection of items behind the Storage         *)
(* interface.  data is the stored sequence of [Name, Credentials].         *)

\* the least member of a set of places, 0 for the empty set
FirstOf(places) ==
    IF places = {} THEN 0 ELSE CHOOSE k \in places : \A m \in places : k <= m

RemoveAt(s, k) == SubSeq(s, 1, k - 1) \o SubSeq(s, k + 1, Len(s))

\* store.GetByName(name): the place of the item, 0 for "not found"
GetByName(data, name) == FirstOf({k \in 1..Len(data) : data[k].Name = name})

\* item.GetCredentialByUsername(username): the place of the credential, 0 for "not found"
GetCredentialByUsername(item, username) ==
    FirstOf({j \in 1..Len(item.Credentials) : item.Credentials[j].Username = username})

\* store.AddItem(item)
AddItem(data, item) == Append(data, item)

\* store.AddCredential(name, credential)
AddCredential(data, name, credential) ==
    LET k == GetByName(data, name)
    IN  IF k = 0 THEN data
        ELSE [data EXCEPT ![k].Credentials = Append(@, credential)]

\* store.UpdateItem(item)
UpdateItem(data, item) ==
    LET k == GetByName(data, item.Name)
    IN  IF k = 0 THEN data ELSE [data EXCEPT ![k] = item]

\* store.DeleteItem(item)
StoreDeleteItem(data, item) ==
    LET k == GetByName(data, item.Name)
    IN  IF k = 0 THEN data ELSE RemoveAt(data, k)

\* store.DeleteCredential(item, credential)
DeleteCredential(data, item, credential) ==
    LET k == GetByName(data, item.Name)
    IN  IF k = 0 THEN data
        ELSE LET j == GetCredentialByUsername(data[k], credential.Username)
             IN  IF j = 0 THEN data
                 ELSE [data EXCEPT ![k].Credentials = RemoveAt(@, j)]

---------------------------------------------------------------------------
(* pkg/core *)

Names == {"a.com", "b.com"}
Usernames == {"", "alice", "bob"}

\* what rand.Reader delivers for the nonce when a credential is stored
VaultNonces == {[i \in 1..NonceSize |-> (17 * i) % 256]}

\* what rand.Intn delivers in generatePassword, the same at each of the draws
Draws == {69}

PasswordLength == 20

\* the letters generatePassword draws from
chars == uppercase \o lowercase \o numbers \o symbols

\* generatePassword(length), every draw of rand.Intn giving r
generatePassword(length, r) == [i \in 1..length |-> chars[r + 1]]

\* AesGcmEncrypt and AesGcmDecrypt over what the commands can hand them,
\* tabulated: a constant function is evaluated once
SealedTable ==
    [p \in Passwords, r \in Draws, nonce \in VaultNonces |->
        AesGcmEncrypt(p, generatePassword(PasswordLength, r), nonce)]

SealedBlobs == {SealedTable[p, r, nonce].blob :
                   p \in Passwords, r \in Draws, nonce \in VaultNonces}

OpenedTable == [q \in Passwords, blob \in SealedBlobs |-> AesGcmDecrypt(q, blob)]

\* crypt.AesGcmEncrypt(globalPassword, generatePassword(20)) as GenerateForSite calls it
EncryptGenerated(password, r, nonce) ==
    IF password \in Passwords /\ r \in Draws /\ nonce \in VaultNonces
    THEN SealedTable[password, r, nonce]
    ELSE AesGcmEncrypt(password, generatePassword(PasswordLength, r), nonce)

\* crypt.AesGcmDecrypt(password, blob) as the commands call it
Decrypt(password, blob) ==
    IF password \in Passwords /\ blob \in SealedBlobs
    THEN OpenedTable[password, blob]
    ELSE AesGcmDecrypt(password, blob)

\* what checkPassword makes of the outcome of AesGcmDecrypt
CheckResult(r) ==
    [valid |-> r.status = "ok", decrypted |-> TRUE, crash |-> r.status = "panic"]

\* checkPassword that drops the error of AesGcmDecrypt
checkPasswordIgnoresError(data, password) ==
    IF Len(data) = 0 THEN [valid |-> TRUE, decrypted |-> FALSE, crash |-> FALSE]
    ELSE [valid |-> TRUE, decrypted |-> TRUE,
          crash |-> Decrypt(password, data[1].Credentials[1].Password).status = "panic"]

\* checkPassword without the case of the empty vault: GetByIndex(0) fails
checkPasswordNoEmptyCase(data, password) ==
    IF Len(data) = 0 THEN [valid |-> FALSE, decrypted |-> FALSE, crash |-> FALSE]
    ELSE CheckResult(Decrypt(password, data[1].Credentials[1].Password))

\* checkPassword(password): valid, whether a decryption was attempted, and
\* whether the process died in it
checkPassword(data, password) ==
    IF Len(data) = 0 THEN [valid |-> TRUE, decrypted |-> FALSE, crash |-> FALSE]
    ELSE IF Len(data[1].Credentials) = 0
    THEN [valid |-> FALSE, decrypted |-> FALSE, crash |-> TRUE]
    ELSE CheckResult(Decrypt(password, data[1].Credentials[1].Password))

\* the value a failed terminal.ReadPassword stands for
ReadError == <<-1>>

\* what getPassword returns for the password at hand and its check: the
\* password when it is valid, nil and an error when it is not
Checked(password, chk) ==
    [err |-> ~chk.valid, password |-> IF chk.valid THEN password ELSE <<>>,
     decrypted |-> chk.decrypted, crash |-> chk.crash]

\* the password getPassword works with
GlobalPassword(flag, typed) == IF Len(flag) <= 0 THEN typed ELSE flag

\* getPassword(c): the --password flag, or what is typed when the flag is
\* empty; then the check
getPassword(data, flag, typed) ==
    IF GlobalPassword(flag, typed) = ReadError
    THEN [err |-> TRUE, password |-> <<>>, decrypted |-> FALSE, crash |-> FALSE]
    ELSE Checked(GlobalPassword(flag, typed),
                 checkPassword(data, GlobalPassword(flag, typed)))

\* what a command leaves behind: its inputs, its outcome, the plaintext it
\* copied to the clipboard (text) and a username it reports (other)
Ran(op, name, username, password, outcome, text, other) ==
    [op |-> op, name |-> name, username |-> username, password |-> password,
     outcome |-> outcome, text |-> text, other |-> other]

StoredBlobs(data) ==
    UNION {{data[k].Credentials[j].Password : j \in 1..Len(data[k].Credentials)} :
              k \in 1..Len(data)}

\* the ghost follows the vault: only the blobs still stored are remembered
Remember(data, known) == {e \in known : e[1] \in StoredBlobs(data)}

Stays == UNCHANGED <<vault, origin, cr, gen>>

MaxCredentials == 3

TotalCredentials(data) ==
    SumSeq([k \in 1..Len(data) |-> Len(data[k].Credentials)])

\* GenerateForSite from the generated password on: it is encrypted under the
\* global password and stored, as a new item or with the item of that name
StoreGenerated(name, username, globalPassword, r, nonce) ==
    LET password        == generatePassword(PasswordLength, r)
        cryptedPassword == EncryptGenerated(globalPassword, r, nonce).blob
        credential      == [Username |-> username, Password |-> cryptedPassword]
        data == IF GetByName(vault, name) = 0
                THEN AddItem(vault, [Name |-> name, Credentials |-> <<credential>>])
                ELSE AddCredential(vault, name, credential)
    IN  /\ TotalCredentials(vault) < MaxCredentials
        /\ vault' = data
        /\ origin' = Remember(data, origin \cup {<<cryptedPassword, globalPassword>>})
        /\ last' = Ran("generate", name, username, globalPassword,
                       IF GetByName(vault, name) = 0 THEN "item added"
                       ELSE "credential added",
                       password, "")
        /\ UNCHANGED <<cr, gen>>

\* a command that ends without storing anything
Refuses(op, name, username, password, outcome, other) ==
    /\ last' = Ran(op, name, username, password, outcome, <<>>, other)
    /\ Stays

\* GenerateForSite without the look for an existing (name, username)
GenerateForSiteNoExistsCheck(name, username, flag, typed, r, nonce) ==
    LET got == getPassword(vault, flag, typed)
    IN  IF got.err
        THEN Refuses("generate", name, username, GlobalPassword(flag, typed),
                     "invalid password", "")
        ELSE StoreGenerated(name, username, got.password, r, nonce)

\* GenerateForSite that drops the error of getPassword and goes on with the
\* nil password it returned
GenerateForSiteIgnoresError(name, username, flag, typed, r, nonce) ==
    LET k      == GetByName(vault, name)
        exists == k # 0 /\ GetCredentialByUsername(vault[k], username) # 0
        got    == getPassword(vault, flag, typed)
    IN  IF exists
        THEN Refuses("generate", name, username, <<>>, "exists", "")
        ELSE StoreGenerated(name, username, got.password, r, nonce)

\* GenerateForSite(c): name and username from the arguments, the global
\* password from the flag or the terminal; r and nonce are the random draws
GenerateForSite(name, username, flag, typed, r, nonce) ==
    LET k      == GetByName(vault, name)
        exists == k # 0 /\ GetCredentialByUsername(vault[k], username) # 0
        got    == getPassword(vault, flag, typed)
    IN  IF exists
        THEN Refuses("generate", name, username, <<>>, "exists", "")
        ELSE IF got.crash
        THEN Refuses("generate", name, username, GlobalPassword(flag, typed), "crash", "")
        ELSE IF got.err
        THEN Refuses("generate", name, username, GlobalPassword(flag, typed),
                     "invalid password", "")
        ELSE StoreGenerated(name, username, got.password, r, nonce)

\* DeleteItem when the item holds one credential: the item goes
DeleteWholeItem(name, username, k) ==
    LET data == StoreDeleteItem(vault, vault[k])
    IN  /\ vault' = data
        /\ origin' = Remember(data, origin)
        /\ last' = Ran("delete", name, username, <<>>, "item deleted", <<>>,
                       IF Len(vault[k].Credentials) >= 1
                       THEN vault[k].Credentials[1].Username ELSE "")
        /\ UNCHANGED <<cr, gen>>

\* DeleteItem when the item holds several: the credential of the username goes
DeleteOneCredential(name, username, k) ==
    LET j == GetCredentialByUsername(vault[k], username)
    IN  IF j = 0
        THEN Refuses("delete", name, username, <<>>, "invalid username", "")
        ELSE LET data == DeleteCredential(vault, vault[k], vault[k].Credentials[j])
             IN  /\ vault' = data
                 /\ origin' = Remember(data, origin)
                 /\ last' = Ran("delete", name, username, <<>>, "credential deleted",
                                <<>>, vault[k].Credentials[j].Username)
                 /\ UNCHANGED <<cr, gen>>

\* DeleteItem with `len(item.Credentials) < 1` for `<= 1`
DeleteItemOffByOne(name, username) ==
    LET k == GetByName(vault, name)
    IN  IF k = 0 THEN Refuses("delete", name, username, <<>>, "invalid name", "")
        ELSE IF Len(vault[k].Credentials) < 1 THEN DeleteWholeItem(name, username, k)
        ELSE DeleteOneCredential(name, username, k)

\* DeleteItem that deletes the item however many credentials it holds
DeleteItemAlways(name, username) ==
    LET k == GetByName(vault, name)
    IN  IF k = 0 THEN Refuses("delete", name, username, <<>>, "invalid name", "")
        ELSE DeleteWholeItem(name, username, k)

\* DeleteItem(c): the username is asked for only when the item holds
\* several credentials
DeleteItem(name, username) ==
    LET k == GetByName(vault, name)
    IN  IF k = 0 THEN Refuses("delete", name, username, <<>>, "invalid name", "")
        ELSE IF Len(vault[k].Credentials) <= 1 THEN DeleteWholeItem(name, username, k)
        ELSE DeleteOneCredential(name, username, k)

\* cli.Input(message, defaultValue): the line typed, the default for an empty line
Input(typedLine, defaultValue) == IF typedLine = "" THEN defaultValue ELSE typedLine

\* the username EditItem looks for.  `username := ""` is declared before the
\* if; the else branch declares a second `username` with :=, so what is typed
\* there never reaches the outer one.
EditUsername(item, typedUsername) ==
    IF Len(item.Credentials) = 1 THEN item.Credentials[1].Username ELSE ""

\* the loop over item.Credentials
RenameAll(credentials, username, newUsername) ==
    [i \in 1..Len(credentials) |->
        IF credentials[i].Username = username
        THEN [credentials[i] EXCEPT !.Username = newUsername]
        ELSE credentials[i]]

\* EditItem(c)
EditItem(name, typedUsername, typedNew) ==
    LET k == GetByName(vault, name)
    IN  IF k = 0
        THEN /\ last' = Ran("edit", name, typedUsername, <<>>, "invalid name", <<>>, typedNew)
             /\ Stays
        ELSE IF Len(vault[k].Credentials) # 1
                /\ GetCredentialByUsername(vault[k], typedUsername) = 0
        THEN /\ last' = Ran("edit", name, typedUsername, <<>>, "invalid username", <<>>,
                            typedNew)
             /\ Stays
        ELSE
            LET item        == vault[k]
                username    == EditUsername(item, typedUsername)
                newUsername == LET n == Input(typedNew, username)
                               IN  IF n = "" THEN username ELSE n
                edited == [item EXCEPT !.Credentials =
                              RenameAll(item.Credentials, username, newUsername)]
            IN  /\ vault' = UpdateItem(vault, edited)
                /\ last' = Ran("edit", name, typedUsername, <<>>, "changed", <<>>, typedNew)
                /\ UNCHANGED <<origin, cr, gen>>

\* DisplayByName(c): the username is asked for only when the item holds
\* several credentials
DisplayByName(name, username, flag, typed) ==
    LET k == GetByName(vault, name)
    IN  IF k = 0
        THEN /\ last' = Ran("display", name, username, <<>>, "invalid name", <<>>, "")
             /\ Stays
        ELSE
            LET item == vault[k]
                j    == IF Len(item.Credentials) > 1
                        THEN GetCredentialByUsername(item, username)
                        ELSE 1
                got  == getPassword(vault, flag, typed)
            IN  IF j = 0
                THEN /\ last' = Ran("display", name, username, <<>>, "invalid username",
                                    <<>>, "")
                     /\ Stays
                ELSE IF got.crash
                THEN /\ last' = Ran("display", name, username, GlobalPassword(flag, typed),
                                    "crash", <<>>, "")
                     /\ Stays
                ELSE IF got.err
                THEN /\ last' = Ran("display", name, username, GlobalPassword(flag, typed),
                                    "invalid password", <<>>, "")
                     /\ Stays
                ELSE
                    LET r == Decrypt(got.password, item.Credentials[j].Password)
                    IN  /\ last' = Ran("display", name, username, got.password,
                                       IF r.status = "ok" THEN "copied"
                                       ELSE IF r.status = "panic" THEN "crash"
                                       ELSE "exit",
                                       r.text, item.Credentials[j].Username)
                        /\ Stays

\* the --password flag and, when the flag is empty, what the terminal delivers
PasswordInputs ==
    {<<<<97>>, <<>>>>, <<<<>>, <<>>>>, <<<<>>, <<112, 119>>>>, <<<<>>, ReadError>>}

Init ==
    /\ vault = <<>>
    /\ origin = {}
    /\ last = LastNone
    /\ cr = CrIdle
    /\ gen = GenIdle

Next ==
    \/ \E name \in Names, username \in Usernames, pw \in PasswordInputs,
          r \in Draws, nonce \in VaultNonces :
            GenerateForSite(name, username, pw[1], pw[2], r, nonce)
    \/ \E name \in Names, username \in Usernames : DeleteItem(name, username)
    \/ \E name \in Names, typedUsername \in Usernames, typedNew \in Usernames :
            EditItem(name, typedUsername, typedNew)
    \/ \E name \in Names, username \in Usernames, pw \in PasswordInputs :
            DisplayByName(name, username, pw[1], pw[2])

Spec == Init /\ [][Next]_vars

---------------------------------------------------------------------------
(* Claims about the commands, checked under Spec *)

\* the last command was `op` and ended with `outcome`
Did(op, outcome) == last.op = op /\ last.outcome = outcome

\* C1: on a vault that is not empty, checkPassword(P) is valid exactly when
\* the password of the first credential of the first item decrypts under P;
\* so it is valid for the password the stored credentials were encrypted
\* with, and for no other.
C1_CheckPassword ==
    Len(vault) > 0 =>
        /\ \A b \in StoredBlobs(vault) : \E e \in origin : e[1] = b
        /\ \A P \in Passwords :
            /\ checkPassword(vault, P).valid
                 <=> Decrypt(P, vault[1].Credentials[1].Password).status = "ok"
            /\ checkPassword(vault, P).valid <=> \A e \in origin : e[2] = P

\* a wrong password was turned down on a vault of two items
C1_Witness ==
    /\ Len(vault) = 2
    /\ Did("generate", "invalid password")
    /\ last.password \in Passwords
    /\ \E e \in origin : e[2] # last.password

\* C2: on a vault with no items checkPassword is valid for every password,
\* the empty one included, and decrypts nothing; the password given to the
\* add that follows is the one later checks accept.
C2_EmptyVault ==
    /\ Len(vault) = 0 =>
        \A P \in Passwords :
            checkPassword(vault, P) = [valid |-> TRUE, decrypted |-> FALSE, crash |-> FALSE]
    /\ Did("generate", "item added") /\ TotalCredentials(vault) = 1 =>
        \A Q \in Passwords : checkPassword(vault, Q).valid <=> Q = last.password

\* the empty password was accepted by the add that filled the empty vault
C2_Witness ==
    /\ Did("generate", "item added")
    /\ TotalCredentials(vault) = 1
    /\ last.password = <<>>
    /\ ~checkPassword(vault, <<97>>).valid

\* the credential (username, blob) where blob opens under P to text
IsCredential(c, username, P, text) ==
    /\ c.Username = username
    /\ Decrypt(P, c.Password) = [status |-> "ok", text |-> text]

\* one step of GenerateForSite, seen from outside
C7_Step ==
    last'.op = "generate" =>
        LET name     == last'.name
            username == last'.username
            P        == last'.password
            k        == GetByName(vault, name)
            exists   == k # 0 /\ \E j \in 1..Len(vault[k].Credentials) :
                                   vault[k].Credentials[j].Username = username
        IN  CASE last'.outcome = "exists" -> exists /\ vault' = vault
              [] last'.outcome = "item added" ->
                    /\ k = 0
                    /\ checkPassword(vault, P).valid
                    /\ Len(vault') = Len(vault) + 1
                    /\ SubSeq(vault', 1, Len(vault)) = vault
                    /\ vault'[Len(vault')].Name = name
                    /\ Len(vault'[Len(vault')].Credentials) = 1
                    /\ IsCredential(vault'[Len(vault')].Credentials[1], username, P,
                                    last'.text)
              [] last'.outcome = "credential added" ->
                    /\ k # 0 /\ ~exists
                    /\ checkPassword(vault, P).valid
                    /\ Len(vault') = Len(vault)
                    /\ \A m \in 1..Len(vault) : m # k => vault'[m] = vault[m]
                    /\ vault'[k].Name = name
                    /\ Len(vault'[k].Credentials) = Len(vault[k].Credentials) + 1
                    /\ SubSeq(vault'[k].Credentials, 1, Len(vault[k].Credentials))
                         = vault[k].Credentials
                    /\ IsCredential(vault'[k].Credentials[Len(vault'[k].Credentials)],
                                    username, P, last'.text)
              [] OTHER ->
                    /\ vault' = vault
                    /\ ~exists
                    /\ P = ReadError \/ ~checkPassword(vault, P).valid

\* C7: with a valid password GenerateForSite adds exactly one credential
\* (username, the generated password encrypted under P) when the pair (name,
\* username) is absent: as a new item after the others when no item has the
\* name, else after the credentials of the item; the stored blob opens under
\* P to the plaintext handed out.  When the pair exists nothing changes.
C7_Generate == [][C7_Step]_vars

\* a credential was added to an item that had one, beside another item
C7_Witness ==
    /\ Did("generate", "credential added")
    /\ Len(vault) = 2
    /\ \E k \in 1..2 : /\ vault[k].Name = last.name
                       /\ Len(vault[k].Credentials) = 2
                       /\ vault[k].Credentials[2].Username = last.username
                       /\ Decrypt(last.password, vault[k].Credentials[2].Password).text
                            = last.text

\* C8: no two items have the same name and every item holds a credential,
\* so checkPassword never reaches for a credential that is not there.
C8_ItemInvariants ==
    /\ \A k1, k2 \in 1..Len(vault) : k1 # k2 => vault[k1].Name # vault[k2].Name
    /\ \A k \in 1..Len(vault) : Len(vault[k].Credentials) >= 1
    /\ \A P \in Passwords : ~checkPassword(vault, P).crash

\* a credential was deleted from the first of two items, which keeps one
C8_Witness ==
    /\ Did("delete", "credential deleted")
    /\ Len(vault) = 2
    /\ vault[1].Name = last.name
    /\ Len(vault[1].Credentials) = 1

\* one step of DeleteItem as the claim has it: the credential removed is the
\* one with the username given
C5_OriginalStep ==
    last'.op = "delete" /\ vault' # vault =>
        LET k == GetByName(vault, last'.name)
        IN  /\ k # 0
            /\ \E j \in 1..Len(vault[k].Credentials) :
                /\ vault[k].Credentials[j].Username = last'.username
                /\ IF Len(vault[k].Credentials) = 1
                   THEN vault' = RemoveAt(vault, k)
                   ELSE vault' = [vault EXCEPT ![k].Credentials = RemoveAt(@, j)]

\* C5 as claimed: DeleteItem(name, username) removes exactly the credential
\* of the item whose username is `username`, and none with another username;
\* the item goes if and only if that was its only credential.
C5_Original == [][C5_OriginalStep]_vars

\* one step of DeleteItem, seen from outside
C5_Step ==
    last'.op = "delete" =>
        LET k == GetByName(vault, last'.name)
        IN  IF k = 0 THEN vault' = vault /\ last'.outcome = "invalid name"
            ELSE IF Len(vault[k].Credentials) = 1
            THEN /\ last'.outcome = "item deleted"
                 /\ Len(vault') = Len(vault) - 1
                 /\ \A m \in 1..Len(vault') :
                        vault'[m] = IF m < k THEN vault[m] ELSE vault[m + 1]
            ELSE LET hits == {j \in 1..Len(vault[k].Credentials) :
                                 vault[k].Credentials[j].Username = last'.username}
                 IN  IF hits = {} THEN vault' = vault /\ last'.outcome = "invalid username"
                     ELSE /\ last'.outcome = "credential deleted"
                          /\ Len(vault') = Len(vault)
                          /\ \A m \in 1..Len(vault) : m # k => vault'[m] = vault[m]
                          /\ vault'[k].Name = last'.name
                          /\ Len(vault'[k].Credentials) = Len(vault[k].Credentials) - 1
                          /\ \E j \in hits :
                                /\ \A i \in hits : j <= i
                                /\ \A i \in 1..Len(vault'[k].Credentials) :
                                     vault'[k].Credentials[i] =
                                        IF i < j THEN vault[k].Credentials[i]
                                        ELSE vault[k].Credentials[i + 1]

\* C5, amended: on an item with two or more credentials DeleteItem(name,
\* username) removes the first credential whose username is `username` and no
\* other, the rest keeping their order, and removes nothing when no username
\* matches; on an item with exactly one credential it removes that credential
\* and with it the item, whatever username was given.  Other items are
\* unchanged.
C5_Delete == [][C5_Step]_vars

\* an item's only credential went although another username was given
C5_Witness ==
    /\ Did("delete", "item deleted")
    /\ last.other # last.username
    /\ Len(vault) = 1
    /\ vault[1].Name # last.name

\* one step of EditItem as the claim has it, when the item holds a
\* credential with the old username and a new username is typed
C6_OriginalStep ==
    last'.op = "edit" /\ last'.outcome = "changed" /\ last'.other # "" =>
        LET k    == GetByName(vault, last'.name)
            hits == {j \in 1..Len(vault[k].Credentials) :
                        vault[k].Credentials[j].Username = last'.username}
        IN  \A j \in hits :
                (\A i \in hits : j <= i) =>
                    vault' = [vault EXCEPT ![k].Credentials[j].Username = last'.other]

\* C6 as claimed: EditItem(name, oldUsername, newUsername), on an item with
\* one credential or several, changes the username of the credential whose
\* username was oldUsername to newUsername and nothing else.
C6_Original == [][C6_OriginalStep]_vars

\* every stored password opens under one and the same global password
KeyUniform(data) ==
    \E P \in Passwords : \A b \in StoredBlobs(data) : Decrypt(P, b).status = "ok"

\* one step of any command
C10_Step ==
    /\ KeyUniform(vault')
    /\ /\ last'.op = "generate" /\ last'.outcome # "exists"
       /\ Len(vault) > 0
       /\ Decrypt(last'.password, vault[1].Credentials[1].Password).status # "ok"
       => vault' = vault

\* C10: whatever passwords the commands are given, all stored passwords open
\* under one and the same global password, and an add on a vault that is not
\* empty with a password that does not open the first credential stores
\* nothing.
C10_KeyUniformity == [][C10_Step]_vars

\* an add with a wrong password was turned down while three credentials are stored
C10_Witness ==
    /\ Did("generate", "invalid password")
    /\ last.password \in Passwords
    /\ TotalCredentials(vault) = 3
    /\ KeyUniform(vault)
    /\ Decrypt(last.password, vault[1].Credentials[1].Password).status = "error"

=============================================================================
